---- MODULE Spec2Model ----
(***************************************************************************)
(* Model of mpsse.c (ecpprog): the MPSSE command encoder, the session      *)
(* controller and the abort path, on top of a libftdi transport.           *)
(*                                                                         *)
(* The program is single threaded and synchronous, so every public         *)
(* function is one action, but for mpsse_send_spi and mpsse_xfer_spi,      *)
(* which are two: the header, whose count may be any int, and the data     *)
(* phase, explored for counts up to MaxChunk.  A function body is an       *)
(* operator that threads a machine record m (the globals, the transport    *)
(* context, the calls made so far) through its statements, in source       *)
(* order.  exit() never returns: once m.halt # "run" every later statement *)
(* leaves m alone.                                                         *)
(*                                                                         *)
(* The transport (libftdi and the chip behind it) is the environment.  Its *)
(* choices for one call of a public function are the record e.             *)
(***************************************************************************)
EXTENDS Integers, Sequences, FiniteSets, TLC

VARIABLES
    mpsse_ftdic,              \* struct ftdi_context, with the chip behind it (boot_latency:
                              \* the chip's latency timer when the program started)
    mpsse_ftdic_open,         \* bool
    mpsse_ftdic_latency_set,  \* bool
    mpsse_ftdi_latency,       \* unsigned char
    proc,                     \* "run": between two public calls; "ret": a public call has
                              \* just returned; "chunk": in mpsse_send_spi or mpsse_xfer_spi,
                              \* the header written; "exit": exit() was called; "block":
                              \* polling for a reply for ever
    exit_status,              \* the argument of exit(), -1 while none
    inited,                   \* mpsse_init has returned
    closed,                   \* mpsse_close has returned
    op,                       \* the last public call and its arguments
    trace,                    \* the transport calls and stderr lines of that call, in order
    data,                     \* the caller's buffer after that call
    ret,                      \* the value that call returned (0 when void)
    prev_gpio                 \* the value byte of the call before it, when that was
                              \* mpsse_set_gpio, else -1

vars == <<mpsse_ftdic, mpsse_ftdic_open, mpsse_ftdic_latency_set, mpsse_ftdi_latency,
          proc, exit_status, inited, closed, op, trace, data, ret, prev_gpio>>

-----------------------------------------------------------------------------
(* Bounds of the exploration.                                              *)

\* longest small caller buffer
MaxLen == 3
\* most zero-byte reads before a reply byte arrives
MaxPolls == 1
\* the latest transport call of one public call that the environment may fail
MaxFail == 13
\* most data bytes of a transfer whose data phase is explored
MaxChunk == 257

-----------------------------------------------------------------------------
(* mpsse.h: enum mpsse_cmd and the transfer command bits.                  *)

MC_SETB_LOW == 128
MC_READB_LOW == 129
MC_SETB_HIGH == 130
MC_READB_HIGH == 131
MC_SET_CLK_DIV == 134
MC_TCK_D5 == 139
MC_CLK_N == 142
MC_CLK_N8 == 143
MC_DATA_TMS == 64
MC_DATA_IN == 32
MC_DATA_OUT == 16
MC_DATA_LSB == 8
MC_DATA_BITS == 2
MC_DATA_OCN == 1

-----------------------------------------------------------------------------
(* C arithmetic.                                                           *)

\* conversion of an int to uint8_t
U8(x) == x % 256

\* x >> 8 on an int
Shr8(x) == x \div 256

RECURSIVE BitOr(_, _)
\* a | b on non-negative ints
BitOr(a, b) ==
    IF a = 0 THEN b
    ELSE IF b = 0 THEN a
    ELSE (IF a % 2 = 1 \/ b % 2 = 1 THEN 1 ELSE 0) + 2 * BitOr(a \div 2, b \div 2)

Min(a, b) == IF a < b THEN a ELSE b

\* one entry of the trace: a transport call with its arguments and result
Rec(call, arg, rc) == [call |-> call, arg |-> arg, rc |-> rc]

LastRc(m) == m.trace[Len(m.trace)].rc

\* the environment fails the next transport call of this public call
Fails(m, e) == e.failAt = Len(m.trace) + 1

\* fprintf(stderr, ...)
stderr(m, msg) == [m EXCEPT !.trace = Append(@, Rec("stderr", <<msg>>, 0))]

-----------------------------------------------------------------------------
(* The chip: an MPSSE command processor (FTDI AN_108) behind the           *)
(* transport.  It consumes the bytes written to it and queues the reply    *)
(* bytes each command calls for.                                           *)

HasBit(o, bit) == (o \div bit) % 2 = 1

\* bytes the command at the head of c takes in all; 0 while the header is incomplete
DevNeed(c) ==
    LET o == c[1] IN
    IF o < 128 THEN
        IF HasBit(o, MC_DATA_BITS) \/ HasBit(o, MC_DATA_TMS)
        THEN 2 + (IF HasBit(o, MC_DATA_OUT) \/ HasBit(o, MC_DATA_TMS) THEN 1 ELSE 0)
        ELSE IF Len(c) < 3 THEN 0
        ELSE 3 + (IF HasBit(o, MC_DATA_OUT) THEN c[2] + 256 * c[3] + 1 ELSE 0)
    ELSE IF o \in {MC_SETB_LOW, MC_SETB_HIGH, MC_SET_CLK_DIV, MC_CLK_N8} THEN 3
    ELSE IF o = MC_CLK_N THEN 2
    ELSE 1

\* the reply bytes of the complete command c
DevReply(d, c, e) ==
    LET o == c[1] IN
    IF e.mute THEN << >>
    ELSE IF o < 128 THEN
        IF ~HasBit(o, MC_DATA_IN) THEN << >>
        ELSE IF HasBit(o, MC_DATA_BITS) \/ HasBit(o, MC_DATA_TMS)
        THEN << IF Len(c) = 3 THEN U8(c[3] + e.miso) ELSE U8(e.miso) >>
        ELSE [i \in 1..(c[2] + 256 * c[3] + 1) |->
                 IF HasBit(o, MC_DATA_OUT) THEN U8(c[3 + i] + e.miso) ELSE U8(e.miso)]
    ELSE IF o = MC_READB_LOW THEN << d.gpio_low >>
    ELSE IF o = MC_READB_HIGH THEN << d.gpio_high >>
    ELSE IF o \in {MC_SETB_LOW, MC_SETB_HIGH, MC_SET_CLK_DIV, MC_CLK_N8, MC_CLK_N, MC_TCK_D5}
    THEN << >>
    ELSE << 250, o >>

\* the chip executes the complete command c
DevExec(d, c, e) ==
    [d EXCEPT !.rx = @ \o DevReply(d, c, e),
              !.gpio_low = IF c[1] = MC_SETB_LOW THEN c[2] ELSE @,
              !.gpio_high = IF c[1] = MC_SETB_HIGH THEN c[2] ELSE @]

RECURSIVE DevRun(_, _)
\* the chip executes every complete command of its input d.cmd
DevRun(d, e) ==
    IF d.cmd = << >> THEN d
    ELSE LET need == DevNeed(d.cmd) IN
         IF need = 0 \/ Len(d.cmd) < need THEN d
         ELSE DevRun(DevExec([d EXCEPT !.cmd = SubSeq(@, need + 1, Len(@))],
                             SubSeq(d.cmd, 1, need), e), e)

-----------------------------------------------------------------------------
(* libftdi calls: each appends itself to the trace.                        *)

ftdi_read_data_drain(m, e) ==
    \* the reads of mpsse_check_rx: every byte waiting, then the read that ends the loop
    LET rx == m.ftdic.rx
        bad == ~m.ftdic.usb_open \/ e.rxerr
        n == IF bad THEN 0 ELSE Len(rx)
        lines == [j \in 1..(2 * n) |->
                     IF j % 2 = 1 THEN Rec("ftdi_read_data", << rx[(j + 1) \div 2] >>, 1)
                     ELSE Rec("stderr", << "unexpected rx byte", rx[j \div 2] >>, 0)]
    IN [m EXCEPT !.trace = (@ \o lines) \o << Rec("ftdi_read_data", << >>, IF bad THEN -1 ELSE 0) >>,
                 !.ftdic.rx = SubSeq(rx, n + 1, Len(rx))]

ftdi_write_data(m, e, buf) ==
    LET n == Len(buf)
        rc == IF ~m.ftdic.usb_open THEN -1
              ELSE IF Fails(m, e) THEN (IF e.short THEN n - 1 ELSE -1)
              ELSE n
        sent == IF rc > 0 THEN SubSeq(buf, 1, rc) ELSE << >>
    IN [m EXCEPT !.trace = Append(@, Rec("ftdi_write_data", buf, rc)),
                 !.ftdic = DevRun([@ EXCEPT !.cmd = @ \o sent], e)]

ftdi_set_latency_timer(m, e, v) ==
    LET ok == m.ftdic.usb_open /\ ~Fails(m, e) IN
    [m EXCEPT !.trace = Append(@, Rec("ftdi_set_latency_timer", << v >>, IF ok THEN 0 ELSE -1)),
              !.ftdic.dev_latency = IF ok THEN v ELSE @]

ftdi_get_latency_timer(m, e) ==
    \* on success the value is stored through the pointer, &mpsse_ftdi_latency
    LET ok == m.ftdic.usb_open /\ ~Fails(m, e) IN
    [m EXCEPT !.trace = Append(@, Rec("ftdi_get_latency_timer", << >>, IF ok THEN 0 ELSE -1)),
              !.latency = IF ok THEN m.ftdic.dev_latency ELSE @]

ftdi_usb_close(m, e) ==
    [m EXCEPT !.trace = Append(@, Rec("ftdi_usb_close", << >>, IF Fails(m, e) THEN -1 ELSE 0)),
              !.ftdic.usb_open = FALSE]

ftdi_deinit(m) ==
    [m EXCEPT !.trace = Append(@, Rec("ftdi_deinit", << >>, 0)),
              !.ftdic.inited = FALSE]

ftdi_disable_bitbang(m, e) ==
    LET ok == m.ftdic.usb_open /\ ~Fails(m, e) IN
    [m EXCEPT !.trace = Append(@, Rec("ftdi_disable_bitbang", << >>, IF ok THEN 0 ELSE -1)),
              !.ftdic.bitmode = IF ok THEN "BITMODE_RESET" ELSE @]

ftdi_init(m) ==
    [m EXCEPT !.trace = Append(@, Rec("ftdi_init", << >>, 0)),
              !.ftdic.inited = TRUE]

ftdi_set_interface(m, e, ifn) ==
    [m EXCEPT !.trace = Append(@, Rec("ftdi_set_interface", << ifn >>, IF Fails(m, e) THEN -1 ELSE 0)),
              !.ftdic.interface = IF Fails(m, e) THEN @ ELSE ifn]

\* e.pid is the product id of the chip on the bus, 0 with none there
ftdi_usb_open(m, e, vendor, product) ==
    LET ok == vendor = 1027 /\ product = e.pid IN
    [m EXCEPT !.trace = Append(@, Rec("ftdi_usb_open", << vendor, product >>, IF ok THEN 0 ELSE -1)),
              !.ftdic.usb_open = ok]

ftdi_usb_open_string(m, e) ==
    LET ok == e.pid # 0 IN
    [m EXCEPT !.trace = Append(@, Rec("ftdi_usb_open_string", << >>, IF ok THEN 0 ELSE -1)),
              !.ftdic.usb_open = ok]

ftdi_usb_reset(m, e) ==
    [m EXCEPT !.trace = Append(@, Rec("ftdi_usb_reset", << >>, IF Fails(m, e) THEN -1 ELSE 0))]

ftdi_usb_purge_buffers(m, e) ==
    [m EXCEPT !.trace = Append(@, Rec("ftdi_usb_purge_buffers", << >>, IF Fails(m, e) THEN -1 ELSE 0)),
              !.ftdic.rx = IF Fails(m, e) THEN @ ELSE << >>,
              !.ftdic.cmd = IF Fails(m, e) THEN @ ELSE << >>]

ftdi_set_bitmode(m, e, bitmask, mode) ==
    [m EXCEPT !.trace = Append(@, Rec("ftdi_set_bitmode", << bitmask, mode >>, IF Fails(m, e) THEN -1 ELSE 0)),
              !.ftdic.bitmode = IF Fails(m, e) THEN @ ELSE mode]

-----------------------------------------------------------------------------
(* mpsse.c                                                                 *)

mpsse_check_rx(m, e) == ftdi_read_data_drain(m, e)

\* mpsse_error treating a failing ftdi_usb_close as fatal in its turn
mpsse_error_escalating(m, e, status) ==
    LET a == stderr(mpsse_check_rx(m, e), "ABORT.")
        b == IF a.open
             THEN ftdi_usb_close(IF a.latset THEN ftdi_set_latency_timer(a, e, a.latency) ELSE a, e)
             ELSE a
        bad == a.open /\ LastRc(b) < 0
        c == ftdi_deinit(IF bad THEN stderr(b, "ABORT.") ELSE b)
    IN [c EXCEPT !.halt = "exit", !.status = IF bad THEN 2 ELSE status]

\* mpsse_error without mpsse_check_rx
mpsse_error_undrained(m, e, status) ==
    LET a == stderr(m, "ABORT.")
        b == IF a.open
             THEN ftdi_usb_close(IF a.latset THEN ftdi_set_latency_timer(a, e, a.latency) ELSE a, e)
             ELSE a
        c == ftdi_deinit(b)
    IN [c EXCEPT !.halt = "exit", !.status = status]

\* mpsse_error without the test of mpsse_ftdic_open
mpsse_error_unguarded(m, e, status) ==
    LET a == stderr(mpsse_check_rx(m, e), "ABORT.")
        b == ftdi_usb_close(IF a.latset THEN ftdi_set_latency_timer(a, e, a.latency) ELSE a, e)
        c == ftdi_deinit(b)
    IN [c EXCEPT !.halt = "exit", !.status = status]

\* mpsse_error closing the transport before it restores the latency timer
mpsse_error_close_first(m, e, status) ==
    LET a == stderr(mpsse_check_rx(m, e), "ABORT.")
        b == IF a.open
             THEN LET k == ftdi_usb_close(a, e) IN
                  IF a.latset THEN ftdi_set_latency_timer(k, e, a.latency) ELSE k
             ELSE a
        c == ftdi_deinit(b)
    IN [c EXCEPT !.halt = "exit", !.status = status]

mpsse_error(m, e, status) ==
    LET a == stderr(mpsse_check_rx(m, e), "ABORT.")
        b == IF a.open
             THEN ftdi_usb_close(IF a.latset THEN ftdi_set_latency_timer(a, e, a.latency) ELSE a, e)
             ELSE a
        c == ftdi_deinit(b)
    IN [c EXCEPT !.halt = "exit", !.status = status]

\* mpsse_recv_byte handing a failed read to its caller as the byte 255
mpsse_recv_bytes_unchecked(m, e, cnt) ==
    IF m.halt # "run" \/ cnt < 1 THEN m
    ELSE [m EXCEPT !.trace = Append(@, Rec("ftdi_read_data", << >>, -1)),
                   !.rcvd = [i \in 1..cnt |-> 255]]

mpsse_recv_bytes(m, e, cnt) ==
    \* cnt calls of mpsse_recv_byte in a row.  Each polls ftdi_read_data until it
    \* returns 1: e.polls reads return 0 before a waiting byte is delivered; the
    \* read the environment fails returns a negative value; with no byte left to
    \* come the loop never ends.
    IF m.halt # "run" \/ cnt < 1 THEN m
    ELSE
    LET p == Len(m.trace)
        rx == m.ftdic.rx
        per == e.polls + 1
        g == Min(cnt, Len(rx))
        full == g * per
        last == full + (IF g < cnt THEN 1 ELSE 0)
        down == ~m.ftdic.usb_open
        f == IF down THEN 1 ELSE e.failAt - p
        failing == 1 <= f /\ f <= last
        nreads == IF failing THEN f ELSE last
        got == IF failing THEN (f - 1) \div per ELSE g
        reads == [j \in 1..nreads |->
                     IF failing /\ j = f THEN Rec("ftdi_read_data", << >>, -1)
                     ELSE IF j % per = 0 /\ j <= full
                          THEN Rec("ftdi_read_data", << rx[j \div per] >>, 1)
                          ELSE Rec("ftdi_read_data", << >>, 0)]
        m1 == [m EXCEPT !.trace = @ \o reads,
                        !.rcvd = @ \o SubSeq(rx, 1, got),
                        !.ftdic.rx = SubSeq(rx, got + 1, Len(rx))]
    IN IF failing THEN mpsse_error(stderr(m1, "Read error."), e, 2)
       ELSE IF g < cnt THEN [m1 EXCEPT !.halt = "block"]
       ELSE m1

mpsse_recv_byte(m, e) == mpsse_recv_bytes(m, e, 1)

\* mpsse_send_byte without the test of rc
mpsse_send_byte_unchecked(m, e, b) ==
    IF m.halt # "run" THEN m ELSE ftdi_write_data(m, e, << b >>)

mpsse_send_byte(m, e, b) ==
    IF m.halt # "run" THEN m
    ELSE LET w == ftdi_write_data(m, e, << b >>) IN
         IF LastRc(w) # 1
         THEN mpsse_error(stderr(w, "Write error (single byte)."), e, 2)
         ELSE w

\* int rc = ftdi_write_data(&mpsse_ftdic, data, n); if (rc != n) ... mpsse_error(2);
write_chunk(m, e, buf, n) ==
    IF m.halt # "run" THEN m
    ELSE LET w == ftdi_write_data(m, e, SubSeq(buf, 1, n)) IN
         IF LastRc(w) # n
         THEN mpsse_error(stderr(w, "Write error (chunk)."), e, 2)
         ELSE w

\* the header of mpsse_send_spi with the high byte of the length first
send_spi_header_swapped(m, e, n) ==
    LET a == mpsse_send_byte(m, e, BitOr(MC_DATA_OUT, MC_DATA_OCN))
        b == mpsse_send_byte(a, e, U8(Shr8(n - 1)))
    IN mpsse_send_byte(b, e, U8(n - 1))

\* mpsse_send_spi, after if (n < 1) return: the opcode and the length field
send_spi_header(m, e, n) ==
    LET a == mpsse_send_byte(m, e, BitOr(MC_DATA_OUT, MC_DATA_OCN))
        b == mpsse_send_byte(a, e, U8(n - 1))
    IN mpsse_send_byte(b, e, U8(Shr8(n - 1)))

\* mpsse_send_spi, from the header on: the data bytes in one write
send_spi_chunk(m, e, buf, n) == write_chunk(m, e, buf, n)

\* the header of mpsse_xfer_spi with n in place of n - 1
xfer_spi_header_count(m, e, n) ==
    LET a == mpsse_send_byte(m, e, BitOr(BitOr(MC_DATA_IN, MC_DATA_OUT), MC_DATA_OCN))
        b == mpsse_send_byte(a, e, U8(n))
    IN mpsse_send_byte(b, e, U8(Shr8(n)))

\* mpsse_xfer_spi, after if (n < 1) return: the opcode and the length field
xfer_spi_header(m, e, n) ==
    LET a == mpsse_send_byte(m, e, BitOr(BitOr(MC_DATA_IN, MC_DATA_OUT), MC_DATA_OCN))
        b == mpsse_send_byte(a, e, U8(n - 1))
    IN mpsse_send_byte(b, e, U8(Shr8(n - 1)))

\* mpsse_xfer_spi, from the header on: the data bytes in one write, then the
\* replies one by one
xfer_spi_chunk(m, e, buf, n) == mpsse_recv_bytes(write_chunk(m, e, buf, n), e, n)

\* for (int i = 0; i < n; i++) data[i] = mpsse_recv_byte();
StoreReplies(buf, rcvd) ==
    [i \in 1..Len(buf) |-> IF i <= Len(rcvd) THEN rcvd[i] ELSE buf[i]]

\* mpsse_xfer_spi_bits writing the data byte before the count
mpsse_xfer_spi_bits_swapped(m, e, d, n) ==
    IF n < 1 THEN m
    ELSE
    LET a == mpsse_send_byte(m, e, BitOr(BitOr(BitOr(MC_DATA_IN, MC_DATA_OUT), MC_DATA_OCN), MC_DATA_BITS))
        b == mpsse_send_byte(a, e, d)
        c == mpsse_send_byte(b, e, U8(n - 1))
    IN mpsse_recv_byte(c, e)

\* mpsse_xfer_spi_bits returning early for negative counts only
mpsse_xfer_spi_bits_zero(m, e, d, n) ==
    IF n < 0 THEN m
    ELSE
    LET a == mpsse_send_byte(m, e, BitOr(BitOr(BitOr(MC_DATA_IN, MC_DATA_OUT), MC_DATA_OCN), MC_DATA_BITS))
        b == mpsse_send_byte(a, e, U8(n - 1))
        c == mpsse_send_byte(b, e, d)
    IN mpsse_recv_byte(c, e)

mpsse_xfer_spi_bits(m, e, d, n) ==
    IF n < 1 THEN m
    ELSE
    LET a == mpsse_send_byte(m, e, BitOr(BitOr(BitOr(MC_DATA_IN, MC_DATA_OUT), MC_DATA_OCN), MC_DATA_BITS))
        b == mpsse_send_byte(a, e, U8(n - 1))
        c == mpsse_send_byte(b, e, d)
    IN mpsse_recv_byte(c, e)

mpsse_set_gpio(m, e, gpio, direction) ==
    LET a == mpsse_send_byte(m, e, MC_SETB_LOW)
        b == mpsse_send_byte(a, e, gpio)
    IN mpsse_send_byte(b, e, direction)

\* mpsse_readb_low asking for the other bank
mpsse_readb_low_other(m, e) == mpsse_recv_byte(mpsse_send_byte(m, e, MC_READB_HIGH), e)

mpsse_readb_low(m, e) == mpsse_recv_byte(mpsse_send_byte(m, e, MC_READB_LOW), e)

mpsse_readb_high(m, e) == mpsse_recv_byte(mpsse_send_byte(m, e, MC_READB_HIGH), e)

mpsse_send_dummy_bytes(m, e, n) ==
    LET a == mpsse_send_byte(m, e, MC_CLK_N8)
        b == mpsse_send_byte(a, e, U8(n - 1))
    IN mpsse_send_byte(b, e, 0)

mpsse_send_dummy_bit(m, e) ==
    mpsse_send_byte(mpsse_send_byte(m, e, MC_CLK_N), e, 0)

\* mpsse_jtag_tms with bits in place of bits - 1
mpsse_jtag_tms_count(m, e, bits, pattern) ==
    LET a == mpsse_send_byte(m, e, BitOr(BitOr(MC_DATA_TMS, MC_DATA_LSB), MC_DATA_BITS))
        b == mpsse_send_byte(a, e, U8(bits))
    IN mpsse_send_byte(b, e, pattern)

mpsse_jtag_tms(m, e, bits, pattern) ==
    LET a == mpsse_send_byte(m, e, BitOr(BitOr(MC_DATA_TMS, MC_DATA_LSB), MC_DATA_BITS))
        b == mpsse_send_byte(a, e, U8(bits - 1))
    IN mpsse_send_byte(b, e, pattern)

\* a step of mpsse_init: after the call that took the machine to r, mpsse_error(2)
\* when its result is bad
OrDie(r, bad, msg, e) ==
    IF bad THEN mpsse_error(stderr(r, msg), e, 2) ELSE r

\* the switch on ifnum with its default moved to INTERFACE_D
ftdi_ifnum_default(ifnum) ==
    CASE ifnum = 0 -> "INTERFACE_A"
      [] ifnum = 1 -> "INTERFACE_B"
      [] ifnum = 2 -> "INTERFACE_C"
      [] OTHER -> "INTERFACE_D"

\* the switch on ifnum
ftdi_ifnum(ifnum) ==
    CASE ifnum = 0 -> "INTERFACE_A"
      [] ifnum = 1 -> "INTERFACE_B"
      [] ifnum = 2 -> "INTERFACE_C"
      [] ifnum = 3 -> "INTERFACE_D"
      [] OTHER -> "INTERFACE_A"

\* the open by device string, or by the two default product ids
init_open(m, e, devstr) ==
    IF devstr
    THEN LET o == ftdi_usb_open_string(m, e) IN
         OrDie(o, LastRc(o) # 0, "Can't find iCE FTDI USB device (device string).", e)
    ELSE LET o1 == ftdi_usb_open(m, e, 1027, 24592)
             o2 == IF LastRc(o1) # 0 THEN ftdi_usb_open(o1, e, 1027, 24596) ELSE o1
         IN OrDie(o2, LastRc(o2) # 0, "Can't find iCE FTDI USB device (vendor_id, device_id).", e)

\* the reset without mpsse_ftdic_open = true
init_reset_unflagged(m, e) ==
    IF m.halt # "run" THEN m
    ELSE LET r == ftdi_usb_reset(m, e) IN
         OrDie(r, LastRc(r) # 0, "Failed to reset iCE FTDI USB device.", e)

\* mpsse_ftdic_open = true; and the reset
init_reset(m, e) ==
    IF m.halt # "run" THEN m
    ELSE LET r == ftdi_usb_reset([m EXCEPT !.open = TRUE], e) IN
         OrDie(r, LastRc(r) # 0, "Failed to reset iCE FTDI USB device.", e)

init_purge(m, e) ==
    IF m.halt # "run" THEN m
    ELSE LET r == ftdi_usb_purge_buffers(m, e) IN
         OrDie(r, LastRc(r) # 0, "Failed to purge buffers on iCE FTDI USB device.", e)

init_get_latency(m, e) ==
    IF m.halt # "run" THEN m
    ELSE LET r == ftdi_get_latency_timer(m, e) IN
         OrDie(r, LastRc(r) < 0, "Failed to get latency timer.", e)

\* the latency timer set to 1; and mpsse_ftdic_latency_set = true
init_set_latency(m, e) ==
    IF m.halt # "run" THEN m
    ELSE LET r == ftdi_set_latency_timer(m, e, 1)
             s == OrDie(r, LastRc(r) < 0, "Failed to set latency timer.", e)
         IN IF s.halt # "run" THEN s ELSE [s EXCEPT !.latset = TRUE]

init_bitmode(m, e) ==
    IF m.halt # "run" THEN m
    ELSE LET r == ftdi_set_bitmode(m, e, 255, "BITMODE_MPSSE") IN
         OrDie(r, LastRc(r) < 0, "Failed to set BITMODE_MPSSE on iCE FTDI USB device.", e)

\* the clock configuration with the two divisors exchanged
init_clock_exchanged(m, e, slow_clock) ==
    LET a == mpsse_send_byte(m, e, MC_TCK_D5)
        b == mpsse_send_byte(a, e, MC_SET_CLK_DIV)
        c == mpsse_send_byte(b, e, IF slow_clock THEN 0 ELSE 119)
    IN mpsse_send_byte(c, e, 0)

\* enable clock divide by 5, then the divisor
init_clock(m, e, slow_clock) ==
    LET a == mpsse_send_byte(m, e, MC_TCK_D5)
        b == mpsse_send_byte(a, e, MC_SET_CLK_DIV)
        c == mpsse_send_byte(b, e, IF slow_clock THEN 119 ELSE 0)
    IN mpsse_send_byte(c, e, 0)

\* mpsse_init entering MPSSE mode before it deals with the latency timer
mpsse_init_bitmode_first(m, e, ifnum, devstr, slow_clock) ==
    LET a == ftdi_set_interface(ftdi_init(m), e, ftdi_ifnum(ifnum))
        b == init_open(a, e, devstr)
        c == init_reset(b, e)
        d == init_purge(c, e)
        h == init_bitmode(d, e)
        f == init_get_latency(h, e)
        g == init_set_latency(f, e)
    IN init_clock(g, e, slow_clock)

mpsse_init(m, e, ifnum, devstr, slow_clock) ==
    LET a == ftdi_set_interface(ftdi_init(m), e, ftdi_ifnum(ifnum))
        b == init_open(a, e, devstr)
        c == init_reset(b, e)
        d == init_purge(c, e)
        f == init_get_latency(d, e)
        g == init_set_latency(f, e)
        h == init_bitmode(g, e)
    IN init_clock(h, e, slow_clock)

\* mpsse_close giving up when the latency timer cannot be restored
mpsse_close_checked(m, e) ==
    LET a == ftdi_set_latency_timer(m, e, m.latency)
        b == ftdi_disable_bitbang(a, e)
        c == ftdi_usb_close(b, e)
    IN IF LastRc(a) < 0 THEN mpsse_error(a, e, 2) ELSE ftdi_deinit(c)

mpsse_close(m, e) ==
    LET a == ftdi_set_latency_timer(m, e, m.latency)
        b == ftdi_disable_bitbang(a, e)
        c == ftdi_usb_close(b, e)
    IN ftdi_deinit(c)

-----------------------------------------------------------------------------
(* The inputs explored.                                                    *)

\* latency timer values the chip may hold when the program starts
LatSamples == {16, 77}

\* interface selectors
IfSamples == {-1, 0, 1, 2, 3, 4, 9}

\* exit statuses passed to mpsse_error by the callers of this layer
StatusSamples == {0, 1, 2, 3}

\* byte arguments
ByteSamples == {0, 5, 255}

\* bit counts passed as int
CountSamples == {-1, 0, 1, 3, 8, 256, 257}

\* bit and byte counts passed as uint8_t
Count8Samples == {0, 1, 3, 8, 255}

\* a caller buffer of len bytes: first, first + 1, ...
Ramp(len, first) == [i \in 1..len |-> U8(first + i - 1)]

\* the counts passed to mpsse_send_spi and mpsse_xfer_spi: none, small ones, and
\* those around the two places where a byte of n - 1 wraps
SpiCounts == ((-1)..MaxLen) \cup {256, 257, 65535, 65536, 65537}

\* a caller buffer of n > 65536 bytes whose last 65536 bytes are, read as commands,
\* a write of 65532 bytes and a read of the low GPIO bank
LongBuffer(n) ==
    [i \in 1..n |->
        IF i = n - 65535 THEN BitOr(MC_DATA_OUT, MC_DATA_OCN)
        ELSE IF i = n - 65534 THEN 251
        ELSE IF i = n - 65533 THEN 255
        ELSE IF i = n THEN MC_READB_LOW
        ELSE 0]

\* the caller's buffer passed along with the count n: at least MaxLen bytes long
SpiBuffer(n) ==
    IF n > 65536 THEN LongBuffer(n) ELSE Ramp(IF n < MaxLen THEN MaxLen ELSE n, 250)

\* the session in which the data phase of a send of more than 65536 bytes is
\* explored: interface A, latency timer 16, no GPIO set yet
LongSession ==
    /\ ~closed
    /\ mpsse_ftdic.interface = "INTERFACE_A"
    /\ mpsse_ftdi_latency = 16
    /\ mpsse_ftdic.gpio_low = 0
    /\ prev_gpio = -1

\* what the environment does during one public call: the transport call it fails
\* (failAt, 0 for none) with a short count or an error (short), the zero-byte reads
\* before each reply byte (polls), what the SPI slave answers (miso), a chip that
\* does not answer (mute), reads that fail in the abort path (rxerr), the chip on
\* the bus (pid, 0 for none)
NoEnv ==
    [failAt |-> 0, short |-> FALSE, polls |-> 0, miso |-> 0, mute |-> FALSE,
     rxerr |-> FALSE, pid |-> 24592]

\* a failure among the first k transport calls
EnvFail(k) ==
    { [NoEnv EXCEPT !.failAt = f, !.short = x[1], !.rxerr = x[2]] :
        f \in 1..Min(k, MaxFail),
        x \in {<<FALSE, FALSE>>, <<TRUE, FALSE>>, <<FALSE, TRUE>>} }

\* for calls that only write or configure, k transport calls long
EnvW(k) == {NoEnv} \cup EnvFail(k)

\* for calls that also read replies
EnvR(k) ==
    { [NoEnv EXCEPT !.polls = p, !.miso = d, !.mute = q] :
        p \in 0..MaxPolls, d \in {0, 1}, q \in BOOLEAN }
    \cup EnvFail(k)
    \cup { [NoEnv EXCEPT !.failAt = f, !.polls = p] :
             f \in 1..Min(k, MaxFail), p \in 1..MaxPolls }

\* for mpsse_init: also which chip is on the bus
EnvI == { [w EXCEPT !.pid = i] : w \in EnvW(MaxFail), i \in {0, 24592, 24596} }

\* for the part of a call from its transport call number k on
From(k, envs) == { e \in envs : e.failAt = 0 \/ e.failAt >= k }

-----------------------------------------------------------------------------
(* The state machine.                                                      *)

\* the machine record a public call starts from
M ==
    [open |-> mpsse_ftdic_open, latset |-> mpsse_ftdic_latency_set,
     latency |-> mpsse_ftdi_latency, ftdic |-> mpsse_ftdic,
     trace |-> << >>, rcvd |-> << >>, halt |-> "run", status |-> -1]

\* the record of a public call
Op(name, n, x, y, flag, buf) ==
    [name |-> name, n |-> n, x |-> x, y |-> y, flag |-> flag, buf |-> buf]

NoOp == Op("none", 0, 0, 0, FALSE, << >>)

\* the machine record a call that has written its header goes on from
MC == [M EXCEPT !.trace = trace]

\* the state after the steps of the public call o that took the machine to r: d
\* is the caller's buffer, v the value returned and at the place the call is at
Effect(r, o, d, v, at) ==
    /\ mpsse_ftdic' = r.ftdic
    /\ mpsse_ftdic_open' = r.open
    /\ mpsse_ftdic_latency_set' = r.latset
    /\ mpsse_ftdi_latency' = r.latency
    /\ proc' = IF r.halt = "run" THEN at ELSE r.halt
    /\ exit_status' = r.status
    /\ op' = o
    /\ trace' = r.trace
    /\ data' = d
    /\ ret' = IF r.halt = "run" THEN v ELSE -1
    /\ prev_gpio' = prev_gpio
    /\ inited' = IF o.name = "mpsse_init" THEN r.halt = "run" ELSE inited
    /\ closed' = IF o.name = "mpsse_close" THEN TRUE ELSE closed

\* the public call o returns, or ends the process
Commit(r, o, d, v) == Effect(r, o, d, v, "ret")

\* the public call o has written its header and goes on to its data bytes, or
\* has ended the process
Enter(r, o) == Effect(r, o, << >>, -1, "chunk")

Init ==
    /\ mpsse_ftdic \in
         { [inited |-> FALSE, interface |-> "INTERFACE_ANY", usb_open |-> FALSE,
            dev_latency |-> l, boot_latency |-> l, bitmode |-> "BITMODE_RESET", gpio_low |-> 0,
            gpio_high |-> 0, rx |-> << >>, cmd |-> << >>] : l \in LatSamples }
    /\ mpsse_ftdic_open = FALSE
    /\ mpsse_ftdic_latency_set = FALSE
    /\ mpsse_ftdi_latency = 0
    /\ proc = "run"
    /\ exit_status = -1
    /\ inited = FALSE
    /\ closed = FALSE
    /\ op = NoOp
    /\ trace = << >>
    /\ data = << >>
    /\ ret = 0
    /\ prev_gpio = -1

Call_mpsse_init ==
    /\ proc = "run" /\ ~inited
    /\ \E ifnum \in IfSamples, devstr \in BOOLEAN, slow_clock \in BOOLEAN, e \in EnvI :
         Commit(mpsse_init(M, e, ifnum, devstr, slow_clock),
                Op("mpsse_init", ifnum, 0, 0, slow_clock, << >>), << >>, 0)

Call_mpsse_close ==
    /\ proc = "run" /\ inited
    /\ \E f \in 0..4 :
         Commit(mpsse_close(M, [NoEnv EXCEPT !.failAt = f]),
                Op("mpsse_close", 0, 0, 0, FALSE, << >>), << >>, 0)

Call_mpsse_error ==
    /\ proc = "run"
    /\ \E status \in StatusSamples, e \in EnvW(5) :
         Commit(mpsse_error(M, e, status),
                Op("mpsse_error", status, 0, 0, FALSE, << >>), << >>, 0)

Call_mpsse_send_spi ==
    /\ proc = "run" /\ inited
    /\ \E n \in SpiCounts :
         IF n < 1
         THEN Commit(M, Op("mpsse_send_spi", n, 0, 0, FALSE, SpiBuffer(n)), SpiBuffer(n), 0)
         ELSE \E e \in EnvW(3) :
                Enter(send_spi_header(M, e, n), Op("mpsse_send_spi", n, 0, 0, FALSE, << >>))

\* the data bytes of a mpsse_send_spi of at most MaxChunk bytes, or of more than
\* 65536 in the one session; the caller's buffer is drawn here, where the call
\* first reads it
Chunk_mpsse_send_spi ==
    /\ proc = "chunk" /\ op.name = "mpsse_send_spi"
    /\ op.n <= MaxChunk \/ (op.n > 65536 /\ LongSession)
    /\ \E e \in IF op.n <= MaxChunk THEN From(4, EnvW(4)) ELSE {NoEnv} :
         Commit(send_spi_chunk(MC, e, SpiBuffer(op.n), op.n),
                [op EXCEPT !.buf = SpiBuffer(op.n)], SpiBuffer(op.n), 0)

Call_mpsse_xfer_spi ==
    /\ proc = "run" /\ inited
    /\ \E n \in SpiCounts :
         IF n < 1
         THEN Commit(M, Op("mpsse_xfer_spi", n, 0, 0, FALSE, SpiBuffer(n)), SpiBuffer(n), 0)
         ELSE \E e \in EnvW(3) :
                Enter(xfer_spi_header(M, e, n), Op("mpsse_xfer_spi", n, 0, 0, FALSE, << >>))

\* the data bytes and the replies of a mpsse_xfer_spi of at most MaxChunk bytes
Chunk_mpsse_xfer_spi ==
    /\ proc = "chunk" /\ op.name = "mpsse_xfer_spi" /\ op.n <= MaxChunk
    /\ \E e \in From(4, EnvR(4 + Min(op.n, MaxLen) * (MaxPolls + 1))) :
         LET r == xfer_spi_chunk(MC, e, SpiBuffer(op.n), op.n) IN
         Commit(r, [op EXCEPT !.buf = SpiBuffer(op.n)],
                StoreReplies(SpiBuffer(op.n), r.rcvd), 0)

Call_mpsse_xfer_spi_bits ==
    /\ proc = "run" /\ inited
    /\ \E d \in ByteSamples, n \in CountSamples :
       \E e \in IF n < 1 THEN {NoEnv} ELSE EnvR(3 + MaxPolls + 1) :
         LET r == mpsse_xfer_spi_bits(M, e, d, n) IN
         Commit(r, Op("mpsse_xfer_spi_bits", n, d, 0, FALSE, << >>), << >>,
                IF n < 1 THEN 0 ELSE IF r.halt = "run" THEN r.rcvd[1] ELSE -1)

Call_mpsse_set_gpio ==
    /\ proc = "run" /\ inited
    /\ \E gpio \in ByteSamples, direction \in ByteSamples, e \in EnvW(3) :
         Commit(mpsse_set_gpio(M, e, gpio, direction),
                Op("mpsse_set_gpio", 0, gpio, direction, FALSE, << >>), << >>, 0)

Call_mpsse_readb_low ==
    /\ proc = "run" /\ inited
    /\ \E e \in EnvR(1 + MaxPolls + 1) :
         LET r == mpsse_readb_low(M, e) IN
         Commit(r, Op("mpsse_readb_low", 0, 0, 0, FALSE, << >>), << >>,
                IF r.halt = "run" THEN r.rcvd[1] ELSE -1)

Call_mpsse_readb_high ==
    /\ proc = "run" /\ inited
    /\ \E e \in EnvR(1 + MaxPolls + 1) :
         LET r == mpsse_readb_high(M, e) IN
         Commit(r, Op("mpsse_readb_high", 0, 0, 0, FALSE, << >>), << >>,
                IF r.halt = "run" THEN r.rcvd[1] ELSE -1)

Call_mpsse_send_dummy_bytes ==
    /\ proc = "run" /\ inited
    /\ \E n \in Count8Samples, e \in EnvW(3) :
         Commit(mpsse_send_dummy_bytes(M, e, n),
                Op("mpsse_send_dummy_bytes", n, 0, 0, FALSE, << >>), << >>, 0)

Call_mpsse_send_dummy_bit ==
    /\ proc = "run" /\ inited
    /\ \E e \in EnvW(2) :
         Commit(mpsse_send_dummy_bit(M, e),
                Op("mpsse_send_dummy_bit", 0, 0, 0, FALSE, << >>), << >>, 0)

Call_mpsse_jtag_tms ==
    /\ proc = "run" /\ inited
    /\ \E bits \in Count8Samples, pattern \in ByteSamples, e \in EnvW(3) :
         Commit(mpsse_jtag_tms(M, e, bits, pattern),
                Op("mpsse_jtag_tms", bits, pattern, 0, FALSE, << >>), << >>, 0)

\* the reads that returned 0 at the end of the trace t
IdleReads(t) ==
    LET busy == { i \in 1..Len(t) : ~(t[i].call = "ftdi_read_data" /\ t[i].rc = 0) }
    IN IF busy = {} THEN Len(t) ELSE Len(t) - CHOOSE i \in busy : \A j \in busy : j <= i

\* mpsse_recv_byte, with no byte to come, reads 0 bytes once more and sleeps;
\* followed for MaxPolls more reads
Poll ==
    /\ proc = "block"
    /\ IdleReads(trace) <= MaxPolls
    /\ trace' = Append(trace, Rec("ftdi_read_data", << >>, 0))
    /\ UNCHANGED << mpsse_ftdic, mpsse_ftdic_open, mpsse_ftdic_latency_set,
                    mpsse_ftdi_latency, proc, exit_status, inited, closed, op, data,
                    ret, prev_gpio >>

\* the caller goes on after a call that returned: the record of that call is
\* dropped, but for the value byte of a mpsse_set_gpio.  A session is followed
\* up to the first call that returns with a reply left unread.
Resume ==
    /\ proc = "ret"
    /\ mpsse_ftdic.rx = << >>
    /\ proc' = "run"
    /\ op' = NoOp
    /\ trace' = << >>
    /\ data' = << >>
    /\ ret' = 0
    /\ prev_gpio' = IF op.name = "mpsse_set_gpio" THEN op.x ELSE -1
    /\ UNCHANGED << mpsse_ftdic, mpsse_ftdic_open, mpsse_ftdic_latency_set,
                    mpsse_ftdi_latency, exit_status, inited, closed >>

Next ==
    \/ Call_mpsse_init
    \/ Call_mpsse_close
    \/ Call_mpsse_error
    \/ Call_mpsse_send_spi
    \/ Chunk_mpsse_send_spi
    \/ Call_mpsse_xfer_spi
    \/ Chunk_mpsse_xfer_spi
    \/ Call_mpsse_xfer_spi_bits
    \/ Call_mpsse_set_gpio
    \/ Call_mpsse_readb_low
    \/ Call_mpsse_readb_high
    \/ Call_mpsse_send_dummy_bytes
    \/ Call_mpsse_send_dummy_bit
    \/ Call_mpsse_jtag_tms
    \/ Poll
    \/ Resume

Spec == Init /\ [][Next]_vars

-----------------------------------------------------------------------------
(* Reading the trace of the last public call.                              *)

IsWrite(t) == t.call = "ftdi_write_data"

IsRead(t) == t.call = "ftdi_read_data"

\* the write of the single byte b that was accepted
WroteByte(t, b) == IsWrite(t) /\ t.arg = << b >> /\ t.rc = 1

\* the calls of kind c, in order
Only(c) == SelectSeq(trace, LAMBDA t : t.call = c)

\* the bytes the reads among the entries t delivered, in order
Delivered(t) ==
    LET got == SelectSeq(t, LAMBDA x : IsRead(x) /\ x.rc = 1)
    IN [i \in 1..Len(got) |-> got[i].arg[1]]

\* no transport call of the last public call failed
NoneFailed ==
    \A i \in 1..Len(trace) :
        /\ trace[i].rc >= 0
        /\ IsWrite(trace[i]) => trace[i].rc = Len(trace[i].arg)

Returned(name) == proc = "ret" /\ op.name = name

\* where the abort path printed "ABORT.", 0 when it did not run
AbortAt ==
    IF \E i \in 1..Len(trace) : trace[i].call = "stderr" /\ trace[i].arg[1] = "ABORT."
    THEN CHOOSE i \in 1..Len(trace) : trace[i].call = "stderr" /\ trace[i].arg[1] = "ABORT."
    ELSE 0

-----------------------------------------------------------------------------
(* C1.  The length field of the header of a full-duplex transfer.          *)

\* the header, the n data bytes and then the n replies of a transfer of n bytes
XferShape ==
    /\ Len(trace) >= 3
    /\ WroteByte(trace[1], MC_DATA_IN + MC_DATA_OUT + MC_DATA_OCN)
    /\ IsWrite(trace[2]) /\ IsWrite(trace[3])
    /\ Len(trace[2].arg) = 1 /\ Len(trace[3].arg) = 1
    /\ trace[2].arg[1] + 256 * trace[3].arg[1] = op.n - 1
    /\ proc = "ret" =>
         LET got == Delivered(trace) IN
         /\ IsWrite(trace[4]) /\ trace[4].arg = SubSeq(op.buf, 1, op.n)
         /\ \A i \in 5..Len(trace) : IsRead(trace[i])
         /\ Len(got) = op.n
         /\ data = [i \in 1..Len(op.buf) |-> IF i <= op.n THEN got[i] ELSE op.buf[i]]

-----------------------------------------------------------------------------
(* C2.  Counts below 1.                                                    *)

SpiNames == {"mpsse_send_spi", "mpsse_xfer_spi", "mpsse_xfer_spi_bits"}

\* C2: a call of mpsse_send_spi, mpsse_xfer_spi or mpsse_xfer_spi_bits with n < 1
\* makes no transport call at all, leaves the caller's buffer and the session
\* (the globals, the transport context and the chip) as they were and returns;
\* mpsse_xfer_spi_bits returns 0.
C2_NoOp ==
    [][ (proc = "run" /\ op'.name \in SpiNames /\ op'.n < 1) =>
          /\ trace' = << >>
          /\ proc' = "ret"
          /\ data' = op'.buf
          /\ UNCHANGED << mpsse_ftdic, mpsse_ftdic_open, mpsse_ftdic_latency_set,
                          mpsse_ftdi_latency, exit_status >>
          /\ op'.name = "mpsse_xfer_spi_bits" => ret' = 0 ]_vars

\* mpsse_xfer_spi_bits has returned from a call with n = 0
C2_Witness == Returned("mpsse_xfer_spi_bits") /\ op.n = 0 /\ trace = << >> /\ ret = 0

-----------------------------------------------------------------------------
(* C3.  The clock configuration.                                           *)

\* C3: the bytes mpsse_init writes are, one write each and in this order,
\* MC_TCK_D5, MC_SET_CLK_DIV, 119 when slow_clock else 0, and 0; it writes nothing
\* else, and all four when it returns.
C3_ClockBytes ==
    op.name = "mpsse_init" =>
      LET w == Only("ftdi_write_data")
          clock == << MC_TCK_D5, MC_SET_CLK_DIV, IF op.flag THEN 119 ELSE 0, 0 >>
      IN /\ Len(w) <= 4
         /\ \A i \in 1..Len(w) : w[i].arg = << clock[i] >>
         /\ proc = "ret" => Len(w) = 4 /\ \A i \in 1..4 : w[i].rc = 1

\* mpsse_init has returned after configuring the slow clock
C3_Witness == Returned("mpsse_init") /\ op.flag /\ Len(Only("ftdi_write_data")) = 4

-----------------------------------------------------------------------------
(* C4.  The abort path before a device was opened.                         *)

\* C4: when the process has ended through mpsse_error with mpsse_ftdic_open false,
\* the abort path has called neither ftdi_set_latency_timer nor ftdi_usb_close,
\* and the exit status is the one passed to mpsse_error: the caller's, or the 2
\* of the open failure in mpsse_init.
C4_AbortBeforeOpen ==
    (proc = "exit" /\ ~mpsse_ftdic_open) =>
      /\ AbortAt > 0
      /\ Only("ftdi_set_latency_timer") = << >>
      /\ Only("ftdi_usb_close") = << >>
      /\ exit_status = IF op.name = "mpsse_error" THEN op.n ELSE 2

\* mpsse_error(3) was called before any device was opened
C4_Witness ==
    proc = "exit" /\ ~mpsse_ftdic_open /\ op.name = "mpsse_error" /\ op.n = 3 /\ exit_status = 3

-----------------------------------------------------------------------------
(* C5.  The abort path restores the latency timer.                         *)

\* mpsse_init has read and saved the latency timer: in an earlier call that
\* returned, or in the call that is aborting
LatencySaved ==
    \/ inited
    \/ /\ op.name = "mpsse_init"
       /\ \E i \in 1..Len(trace) : trace[i].call = "ftdi_get_latency_timer" /\ trace[i].rc >= 0

\* the abort path has called ftdi_set_latency_timer with the saved value, which is
\* the one the chip had, and ftdi_usb_close only after it
RestoredBeforeClose ==
    /\ AbortAt > 0
    /\ mpsse_ftdi_latency = mpsse_ftdic.boot_latency
    /\ \E i \in (AbortAt + 1)..Len(trace) :
         /\ trace[i].call = "ftdi_set_latency_timer"
         /\ trace[i].arg = << mpsse_ftdi_latency >>
         /\ \A j \in (AbortAt + 1)..Len(trace) : trace[j].call = "ftdi_usb_close" => j > i

\* C5 as claimed: an abort at any point after mpsse_init has read and saved the
\* latency timer calls ftdi_set_latency_timer with the saved value before it
\* closes the transport.
C5_AfterSaved == (proc = "exit" /\ LatencySaved) => RestoredBeforeClose

\* C5 amended: an abort at any point after mpsse_init has set
\* mpsse_ftdic_latency_set, which it does once the timer was read, saved and then
\* set to 1, calls ftdi_set_latency_timer with the saved value before it closes
\* the transport.
C5_RestoreWhenSet == (proc = "exit" /\ mpsse_ftdic_latency_set) => RestoredBeforeClose

\* a transfer has aborted in a session whose chip started with latency timer 77
C5_Witness ==
    /\ proc = "exit" /\ mpsse_ftdic_latency_set /\ op.name = "mpsse_xfer_spi"
    /\ mpsse_ftdic.boot_latency = 77
    /\ \E i \in 1..Len(trace) :
         trace[i].call = "ftdi_set_latency_timer" /\ trace[i].arg = << 77 >>

-----------------------------------------------------------------------------
(* C6.  GPIO set, then read.                                               *)

\* C6: mpsse_set_gpio(v, d) writes MC_SETB_LOW, v, d, one byte a write, and
\* nothing else; a mpsse_readb_low right after it writes the one byte
\* MC_READB_LOW, is delivered one reply byte, and returns v.
C6_GpioRoundTrip ==
    /\ Returned("mpsse_set_gpio") =>
         /\ Len(trace) = 3
         /\ WroteByte(trace[1], MC_SETB_LOW)
         /\ WroteByte(trace[2], op.x)
         /\ WroteByte(trace[3], op.y)
    /\ (Returned("mpsse_readb_low") /\ prev_gpio >= 0) =>
         /\ WroteByte(trace[1], MC_READB_LOW)
         /\ \A i \in 2..Len(trace) : IsRead(trace[i])
         /\ Len(Delivered(trace)) = 1
         /\ ret = prev_gpio

\* mpsse_readb_low has returned 255 right after mpsse_set_gpio(255, d)
C6_Witness == Returned("mpsse_readb_low") /\ prev_gpio = 255 /\ ret = 255

-----------------------------------------------------------------------------
(* C7.  The interface selector.                                            *)

\* C7: mpsse_init calls ftdi_init and then ftdi_set_interface with INTERFACE_A, B,
\* C, D for ifnum 0, 1, 2, 3 and INTERFACE_A for any other ifnum, and every
\* ftdi_usb_open and ftdi_usb_open_string comes after that.
C7_Interface ==
    op.name = "mpsse_init" =>
      /\ Len(trace) >= 2
      /\ trace[1].call = "ftdi_init"
      /\ trace[2].call = "ftdi_set_interface"
      /\ trace[2].arg = << IF op.n = 1 THEN "INTERFACE_B"
                           ELSE IF op.n = 2 THEN "INTERFACE_C"
                           ELSE IF op.n = 3 THEN "INTERFACE_D"
                           ELSE "INTERFACE_A" >>
      /\ \A i \in 1..Len(trace) :
           trace[i].call \in {"ftdi_usb_open", "ftdi_usb_open_string"} => i > 2

\* mpsse_init(9, ...) has returned with interface A selected
C7_Witness ==
    Returned("mpsse_init") /\ op.n = 9 /\ mpsse_ftdic.interface = "INTERFACE_A"

-----------------------------------------------------------------------------
(* C8.  The TMS shift.                                                     *)

\* C8: for b >= 1, a mpsse_jtag_tms(b, p) that returns has written
\* MC_DATA_TMS | MC_DATA_LSB | MC_DATA_BITS, b - 1 and p, one byte a write, and
\* has made no other transport call, so no read.
C8_TmsBytes ==
    (Returned("mpsse_jtag_tms") /\ op.n >= 1) =>
      /\ Len(trace) = 3
      /\ WroteByte(trace[1], MC_DATA_TMS + MC_DATA_LSB + MC_DATA_BITS)
      /\ WroteByte(trace[2], op.n - 1)
      /\ WroteByte(trace[3], op.x)

\* mpsse_jtag_tms(3, 5) has returned
C8_Witness == Returned("mpsse_jtag_tms") /\ op.n = 3 /\ op.x = 5

-----------------------------------------------------------------------------
(* C9.  Fatal conditions.                                                  *)

\* the transport call t returned what the caller of it treats as fatal
Fatal(t) ==
    \/ IsWrite(t) /\ t.rc # Len(t.arg)
    \/ IsRead(t) /\ t.rc < 0
    \/ t.call \in {"ftdi_usb_reset", "ftdi_usb_purge_buffers", "ftdi_usb_open_string"} /\ t.rc # 0
    \/ t.call = "ftdi_usb_open" /\ t.arg[2] = 24596 /\ t.rc # 0
    \/ t.call \in {"ftdi_get_latency_timer", "ftdi_set_latency_timer", "ftdi_set_bitmode"} /\ t.rc < 0

\* C9: in mpsse_init and in every encoder operation, a transport call whose result
\* is fatal (an open that fails, a failing reset, purge, latency or bit-mode step,
\* a write of fewer bytes than asked, a negative read) is followed by the abort
\* path with status 2 and by nothing else: the process has exited with status 2,
\* no value was returned, no write follows the failure and the caller's buffer
\* holds no reply but those delivered before it.
C9_FatalAborts ==
    op.name \notin {"none", "mpsse_close", "mpsse_error"} =>
      LET a == AbortAt IN
      \A i \in 1..(IF a = 0 THEN Len(trace) ELSE a - 1) :
        Fatal(trace[i]) =>
          /\ proc = "exit" /\ exit_status = 2 /\ ret = -1
          /\ a > i
          /\ \A j \in (i + 1)..Len(trace) :
               /\ ~IsWrite(trace[j])
               /\ IsRead(trace[j]) => j < a
          /\ \A j \in (i + 1)..(a - 1) :
               trace[j].call = "stderr" \/ IsRead(trace[j])
          /\ data = StoreReplies(op.buf, Delivered(SubSeq(trace, 1, i)))

\* a transfer whose second reply could not be read has ended the process
C9_Witness ==
    /\ proc = "exit" /\ op.name = "mpsse_xfer_spi"
    /\ \E i \in 1..Len(trace) :
         /\ IsRead(trace[i]) /\ trace[i].rc < 0 /\ i < AbortAt
         /\ Len(Delivered(SubSeq(trace, 1, i))) = 1

-----------------------------------------------------------------------------
(* C10.  The normal teardown.                                              *)

\* C10: mpsse_close makes exactly four transport calls, ftdi_set_latency_timer
\* with the value mpsse_init saved, ftdi_disable_bitbang, ftdi_usb_close and
\* ftdi_deinit, in this order, and returns, whatever they return.
C10_CloseOrder ==
    op.name = "mpsse_close" =>
      /\ proc = "ret"
      /\ [i \in 1..Len(trace) |-> trace[i].call] =
           << "ftdi_set_latency_timer", "ftdi_disable_bitbang", "ftdi_usb_close", "ftdi_deinit" >>
      /\ trace[1].arg = << mpsse_ftdic.boot_latency >>
      /\ AbortAt = 0

\* mpsse_close has returned from a session that was open although the latency
\* timer could not be restored
C10_Witness == Returned("mpsse_close") /\ trace[1].rc < 0 /\ trace[2].rc = 0

-----------------------------------------------------------------------------
(* C11.  Length fields and counts below 1.                                 *)

CountedNames ==
    {"mpsse_send_spi", "mpsse_xfer_spi", "mpsse_xfer_spi_bits", "mpsse_jtag_tms",
     "mpsse_send_dummy_bytes"}

\* the length field of the header the last call wrote: two bytes, low byte first,
\* in the byte-wide commands and one byte in the bit-wide ones
LengthField ==
    IF op.name \in {"mpsse_send_spi", "mpsse_xfer_spi", "mpsse_send_dummy_bytes"}
    THEN trace[2].arg[1] + 256 * trace[3].arg[1]
    ELSE trace[2].arg[1]

\* C11 as claimed: once mpsse_send_spi, mpsse_xfer_spi, mpsse_xfer_spi_bits,
\* mpsse_jtag_tms or mpsse_send_dummy_bytes has written its header, or has
\* returned, either its count is >= 1 and the length field it wrote is count - 1,
\* or its count is < 1 and it has written nothing.
C11_LengthOrNoOp ==
    (op.name \in CountedNames /\ proc \in {"ret", "chunk"}) =>
      IF op.n >= 1 THEN LengthField = op.n - 1 ELSE trace = << >>

-----------------------------------------------------------------------------
(* C12.  The configuration steps of mpsse_init.                            *)

\* the transport calls of the last call itself, without those of the abort path
OwnCalls ==
    LET a == AbortAt
        own == IF a = 0 THEN trace ELSE SubSeq(trace, 1, a - 1)
    IN SelectSeq(own, LAMBDA t : t.call \notin {"stderr", "ftdi_read_data"})

\* the configuration steps in order, then the four command bytes
ConfigOrder ==
    << "ftdi_usb_reset", "ftdi_usb_purge_buffers", "ftdi_get_latency_timer",
       "ftdi_set_latency_timer", "ftdi_set_bitmode",
       "ftdi_write_data", "ftdi_write_data", "ftdi_write_data", "ftdi_write_data" >>

\* C12: what mpsse_init does after the open that succeeded is a prefix of: reset,
\* purge, get latency timer, set latency timer to 1, set bit mode MPSSE with mask
\* 0xff, then the command bytes.  No step but the last one made has failed, so a
\* failing step is the last and no command byte is written before the bit mode
\* was set; the steps stop short only on a failure, which ends the process; the
\* value read from the chip is the one saved.
C12_ConfigOrder ==
    op.name = "mpsse_init" =>
      LET s == OwnCalls
          opens == { i \in 1..Len(s) :
                       s[i].call \in {"ftdi_usb_open", "ftdi_usb_open_string"} /\ s[i].rc = 0 }
          rest == IF opens = {} THEN << >>
                  ELSE SubSeq(s, (CHOOSE i \in opens : TRUE) + 1, Len(s))
          n == Len(rest)
      IN /\ Cardinality(opens) <= 1
         /\ n <= 9
         /\ \A i \in 1..n :
              /\ rest[i].call = ConfigOrder[i]
              /\ i < n => ~Fatal(rest[i])
         /\ n >= 4 => rest[4].arg = << 1 >>
         /\ n >= 5 => rest[5].arg = << 255, "BITMODE_MPSSE" >>
         /\ (n > 3 \/ (n = 3 /\ ~Fatal(rest[3]))) =>
              mpsse_ftdi_latency = mpsse_ftdic.boot_latency
         /\ opens # {} => n >= 1
         /\ (opens # {} /\ n < 9) => Fatal(rest[n]) /\ proc = "exit"
         /\ proc = "ret" <=> (n = 9 /\ ~Fatal(rest[9]))

\* mpsse_init has ended the process at the bit-mode step, no command byte written
C12_Witness ==
    /\ proc = "exit" /\ op.name = "mpsse_init"
    /\ \E i \in 1..Len(trace) : trace[i].call = "ftdi_set_bitmode" /\ trace[i].rc < 0
    /\ Only("ftdi_write_data") = << >>

-----------------------------------------------------------------------------
(* C13.  The steps of the abort path.                                      *)

\* where the abort path starts when it printed "ABORT." at a: after the last line
\* printed before it that does not report a stray byte
DrainStart(a) ==
    LET msgs == { i \in 1..(a - 1) :
                    trace[i].call = "stderr" /\ trace[i].arg[1] # "unexpected rx byte" }
    IN IF msgs = {} THEN 1 ELSE 1 + CHOOSE i \in msgs : \A j \in msgs : j <= i

\* the calls the abort path makes after "ABORT."
Teardown ==
    (IF mpsse_ftdic_open /\ mpsse_ftdic_latency_set
     THEN << << "ftdi_set_latency_timer", << mpsse_ftdi_latency >> >> >> ELSE << >>)
    \o (IF mpsse_ftdic_open THEN << << "ftdi_usb_close", << >> >> >> ELSE << >>)
    \o << << "ftdi_deinit", << >> >> >>

\* C13: a process that has exited went through the abort path, which made these
\* calls and no other, in this order: reads, each that delivered a byte followed
\* by the report of that byte, up to the first read that delivered none; the line
\* "ABORT."; ftdi_set_latency_timer with the saved value when both flags are
\* set; ftdi_usb_close when the open flag is set; ftdi_deinit, once; and the
\* exit status is the one mpsse_error was given.
C13_AbortOrder ==
    proc = "exit" =>
      LET a == AbortAt
          d == DrainStart(a)
          tail == SubSeq(trace, a + 1, Len(trace))
      IN /\ a > 0
         /\ a > d /\ (a - 1 - d) % 2 = 0
         /\ IsRead(trace[a - 1]) /\ trace[a - 1].rc <= 0
         /\ \A j \in d..(a - 2) :
              IF (j - d) % 2 = 0
              THEN IsRead(trace[j]) /\ trace[j].rc = 1
              ELSE /\ trace[j].call = "stderr"
                   /\ trace[j].arg = << "unexpected rx byte", trace[j - 1].arg[1] >>
         /\ [i \in 1..Len(tail) |-> << tail[i].call, tail[i].arg >>] = Teardown
         /\ exit_status = IF op.name = "mpsse_error" THEN op.n ELSE 2

\* an abort in an open session found a stray byte to drain
C13_Witness ==
    /\ proc = "exit" /\ mpsse_ftdic_open /\ mpsse_ftdic_latency_set
    /\ \E i \in 1..Len(trace) :
         trace[i].call = "stderr" /\ trace[i].arg[1] = "unexpected rx byte"

-----------------------------------------------------------------------------
(* C14.  The command channel in sync.                                      *)

\* C14 as claimed: between two calls and when a call has returned, the chip,
\* which answers each command it is sent with the reply bytes that command calls
\* for, has produced no reply byte that the host has not read.
C14_InSync == proc \in {"run", "ret"} => mpsse_ftdic.rx = << >>

-----------------------------------------------------------------------------
(* C15.  mpsse_recv_byte.                                                  *)

\* the calls that read one reply through mpsse_recv_byte, and return it
ByteReaders == {"mpsse_readb_low", "mpsse_readb_high", "mpsse_xfer_spi_bits"}

\* the entries of the trace up to where the abort path starts
BeforeAbort ==
    LET a == AbortAt IN
    IF a = 0 THEN trace ELSE SubSeq(trace, 1, DrainStart(a) - 1)

\* what holds of the reads the last call made through mpsse_recv_byte
RecvReads ==
    LET own == SelectSeq(BeforeAbort, IsRead)
        n == Len(own)
        got == Len(Delivered(own))
        wanted == IF op.name = "mpsse_xfer_spi" THEN op.n ELSE 1
    IN (op.name \in ByteReaders \cup {"mpsse_xfer_spi"} /\ n > 0) =>
         /\ \A i \in 1..n :
              /\ own[i].rc \in {-1, 0, 1}
              /\ Len(own[i].arg) = (IF own[i].rc = 1 THEN 1 ELSE 0)
              /\ own[i].rc < 0 => i = n /\ proc = "exit" /\ exit_status = 2 /\ ret = -1
         /\ got <= wanted
         /\ proc = "ret" =>
              /\ own[n].rc = 1
              /\ got = wanted
              /\ op.name \in ByteReaders => ret = own[n].arg[1]
         /\ proc \notin {"ret", "exit"} => proc = "block" /\ own[n].rc = 0 /\ ret = -1

\* C15: in a call that reads through mpsse_recv_byte, every read delivers one
\* byte or none.  The call has returned only if its last read delivered a byte,
\* after as many delivering reads as replies it had to read, and returns the byte
\* read; a read that returned 0 is followed by another read, for as long as no
\* byte comes: the call then never returns and never ends the process; a read that
\* failed is the last one the call made, the process ended with status 2 and no
\* value was returned.
C15_RecvByte ==
    /\ []RecvReads
    /\ [][proc = "block" => (proc' = "block" /\ ret' = -1 /\ IdleReads(trace') > IdleReads(trace))]_vars

\* mpsse_readb_low is still polling after MaxPolls + 1 reads that returned 0
C15_Witness ==
    proc = "block" /\ op.name = "mpsse_readb_low" /\ IdleReads(trace) = MaxPolls + 1

-----------------------------------------------------------------------------
(* C16.  No second error in the abort path.                                *)

\* what holds of a process that has exited
AbortedOnce ==
    proc = "exit" =>
      LET a == AbortAt
          d == DrainStart(a)
      IN /\ a > 0
         /\ Cardinality({ i \in 1..Len(trace) :
                            trace[i].call = "stderr" /\ trace[i].arg[1] = "ABORT." }) = 1
         /\ \A i \in d..Len(trace) :
              /\ ~IsWrite(trace[i])
              /\ trace[i].call = "stderr" =>
                   trace[i].arg[1] \in {"ABORT.", "unexpected rx byte"}
         /\ trace[a - 1].rc = 0 => mpsse_ftdic.rx = << >>
         /\ trace[Len(trace)].call = "ftdi_deinit"
         /\ exit_status = IF op.name = "mpsse_error" THEN op.n ELSE 2

\* C16: a process that has exited ran the abort path once: from its start on
\* nothing is written and nothing reported but the stray bytes and the one
\* "ABORT."; when the drain ended on a read of 0 bytes no reply is left; the path
\* ran to ftdi_deinit and the exit status is the one it was given, whatever the
\* reads, the restore and the close returned.  And a call of mpsse_error always
\* ends the process, with its status.
C16_NoSecondError ==
    /\ []AbortedOnce
    /\ [][(proc = "run" /\ op'.name = "mpsse_error") =>
            (proc' = "exit" /\ exit_status' = op'.n)]_vars

\* mpsse_error(1) has ended the process with status 1 although ftdi_usb_close failed
C16_Witness ==
    /\ proc = "exit" /\ op.name = "mpsse_error" /\ op.n = 1 /\ exit_status = 1
    /\ \E i \in 1..Len(trace) : trace[i].call = "ftdi_usb_close" /\ trace[i].rc < 0

-----------------------------------------------------------------------------
(* C17.  The bytes of a send.                                              *)

-----------------------------------------------------------------------------
(* C18.  The bit transfer.                                                 *)

\* the three bytes of a bit transfer of op.n bits, then the reads, of which one
\* delivers a byte: the last, and the byte is the value returned
BitsShape ==
    /\ Len(trace) >= 3
    /\ WroteByte(trace[1], MC_DATA_IN + MC_DATA_OUT + MC_DATA_OCN + MC_DATA_BITS)
    /\ WroteByte(trace[2], op.n - 1)
    /\ WroteByte(trace[3], op.x)
    /\ \A i \in 4..Len(trace) : IsRead(trace[i])
    /\ proc = "ret" =>
         /\ Delivered(trace) = << ret >>
         /\ trace[Len(trace)].rc = 1

-----------------------------------------------------------------------------
(* C19.  The two flags.                                                    *)

\* C19: in every state mpsse_ftdic_latency_set implies mpsse_ftdic_open and that
\* mpsse_ftdi_latency holds the value read from the chip; and every
\* ftdi_set_latency_timer of the abort path is given that value.
C19_FlagOrder ==
    /\ mpsse_ftdic_latency_set =>
         /\ mpsse_ftdic_open
         /\ mpsse_ftdi_latency = mpsse_ftdic.boot_latency
    /\ proc = "exit" =>
         \A i \in (AbortAt + 1)..Len(trace) :
           trace[i].call = "ftdi_set_latency_timer" =>
             /\ mpsse_ftdic_latency_set
             /\ trace[i].arg = << mpsse_ftdic.boot_latency >>

\* an abort after mpsse_close has written the latency timer once more
C19_Witness ==
    /\ proc = "exit" /\ closed /\ mpsse_ftdic_latency_set
    /\ \E i \in (AbortAt + 1)..Len(trace) : trace[i].call = "ftdi_set_latency_timer"

-----------------------------------------------------------------------------
(* C20.  Closing the transport once.                                       *)

\* the calls of c in the record t of one public call
Calls(t, c) == Len(SelectSeq(t, LAMBDA x : x.call = c))

\* C20 as claimed: over any sequence of public calls that starts with mpsse_init,
\* ftdi_usb_close and ftdi_deinit are each called at most once, and neither is
\* called by a step taken after mpsse_close has returned.
C20_CloseOnce ==
    [][\A c \in {"ftdi_usb_close", "ftdi_deinit"} :
         Calls(trace', c) <= (IF closed THEN 0 ELSE 1)]_vars

====
